---- MODULE Spec2Model ----
(***************************************************************************)
(* opentelemetry-tonic: the carrier adapters between a tonic MetadataMap   *)
(* and the OpenTelemetry text-map propagator (MetadataInjector,            *)
(* MetadataExtractor) and the four request operations built on them.       *)
(*                                                                         *)
(* Strings are sequences of one-character strings.  Three characters that  *)
(* have no printable form are written as tokens: "LF" (0x0A), "TAB" (0x09) *)
(* and "x80" (a byte or character above 0x7F).                             *)
(***************************************************************************)
EXTENDS Naturals, Sequences, FiniteSets, TLC

VARIABLES
    carrier,    \* CarrierSpec: the MetadataMap an adapter wraps (self.0)
    ret,        \* CarrierSpec: the last adapter call and what it returned
    metadata,   \* metadata[u]: the MetadataMap of the request unit u is about to send
    thread,     \* thread[u]: the thread unit u runs on
    current,    \* current[t]: CURRENT_CONTEXT, the ambient context of thread t
    guards,     \* guards[t]: the live ContextGuards made on thread t, oldest first
    span,       \* span[u]: the tracing span that is current in unit u
    last,       \* history: the last operation, its unit and its request
    lifo        \* history: lifo[t] while every release on t was of t's newest guard

vars == <<carrier, ret, metadata, thread, current, guards, span, last, lifo>>

(***************************************************************************)
(* Characters                                                              *)
(***************************************************************************)
UpperSeq == <<"A","B","C","D","E","F","G","H","I","J","K","L","M",
              "N","O","P","Q","R","S","T","U","V","W","X","Y","Z">>
LowerSeq == <<"a","b","c","d","e","f","g","h","i","j","k","l","m",
              "n","o","p","q","r","s","t","u","v","w","x","y","z">>
DigitSeq == <<"0","1","2","3","4","5","6","7","8","9">>

SeqRange(s) == {s[i] : i \in 1..Len(s)}

Upper == SeqRange(UpperSeq)
Lower == SeqRange(LowerSeq)
Digit == SeqRange(DigitSeq)

\* The other characters http's HEADER_CHARS table accepts in a header name
\* (the apostrophe and the backquote, also accepted, are left out).
TokenPunct == {"!","#","$","%","&","*","+","-",".","^","_","|","~"}

\* Visible ASCII that is no header-name character.
OtherVisible == {" ","=","@",":",",","/","(",")"}

\* The characters of a header name: http's HEADER_CHARS table.
TokenChars == Upper \cup Lower \cup Digit \cup TokenPunct

\* http's is_visible_ascii: 32 <= b < 127, or a tab.
VisibleChars == TokenChars \cup OtherVisible \cup {"TAB"}
is_visible_ascii(c) == c \in VisibleChars

\* u8::to_ascii_lowercase / the lower-casing of HEADER_CHARS.
LowerOf == [c \in Upper |-> LowerSeq[CHOOSE i \in 1..Len(UpperSeq) : UpperSeq[i] = c]]
ToLower(c) == IF c \in Upper THEN LowerOf[c] ELSE c

is_ascii_uppercase(c) == c \in Upper

LowerStr(s) == [i \in 1..Len(s) |-> ToLower(s[i])]

\* Option<T>: None is the empty sequence, Some(v) the one-element sequence.
None == <<>>
Some(v) == <<v>>

(***************************************************************************)
(* tonic / http: keys and values                                           *)
(***************************************************************************)
BinSuffix == <<"-","b","i","n">>

\* str::ends_with
ends_with(s, suffix) ==
    /\ Len(s) >= Len(suffix)
    /\ SubSeq(s, Len(s) - Len(suffix) + 1, Len(s)) = suffix

\* tonic's Binary::is_valid_key and Ascii::is_valid_key: the suffix is
\* compared as written, byte for byte.
Binary_is_valid_key(key) == ends_with(key, BinSuffix)
Ascii_is_valid_key(key) == ~Binary_is_valid_key(key)

\* http's HeaderName::from_bytes: a non-empty token, normalised to lower case.
HeaderName_from_bytes(key) ==
    IF /\ Len(key) > 0
       /\ \A i \in 1..Len(key) : key[i] \in TokenChars
    THEN Some(LowerStr(key))
    ELSE None

\* MetadataKey::<Ascii>::from_str (line 18): a header name that is no
\* binary-suffixed name.
MetadataKey_from_str(key) ==
    LET name == HeaderName_from_bytes(key)
    IN  IF name # None /\ Ascii_is_valid_key(name[1]) THEN name ELSE None

\* value.parse::<MetadataValue<Ascii>>() (line 19): HeaderValue::from_str accepts
\* visible ASCII and tabs only.
MetadataValue_parse(value) ==
    IF \A i \in 1..Len(value) : is_visible_ascii(value[i]) THEN Some(value) ELSE None

\* HeaderValue::to_str (line 32): the bytes as text, when all are visible ASCII.
to_str(value) ==
    IF \A i \in 1..Len(value) : is_visible_ascii(value[i]) THEN Some(value) ELSE None

(***************************************************************************)
(* tonic: MetadataMap.  A map is a function from the keys present (lower   *)
(* case header names) to the non-empty sequence of values each holds.      *)
(***************************************************************************)
EmptyMap == [k \in {} |-> <<>>]

\* Mutant of MetadataMap_insert: MetadataMap::append, one more value under the key.
MetadataMap_insert_Appends(map, key, val) ==
    [k \in DOMAIN map \cup {key} |->
        IF k = key THEN (IF key \in DOMAIN map THEN Append(map[key], val) ELSE <<val>>)
        ELSE map[k]]

\* MetadataMap::insert (line 20): HeaderMap::insert replaces every value the
\* key held.
MetadataMap_insert(map, key, val) ==
    [k \in DOMAIN map \cup {key} |-> IF k = key THEN <<val>> ELSE map[k]]

\* Mutant of MetadataMap_get: the name is looked up as written.
MetadataMap_get_Exact(map, key) ==
    IF Ascii_is_valid_key(key) /\ key \in DOMAIN map THEN Some(map[key][1]) ELSE None

\* MetadataMap::get::<&str> (line 32): refused when the key as written ends in
\* "-bin"; otherwise HeaderMap::get, which lower-cases the name and yields the
\* first value.
MetadataMap_get(map, key) ==
    LET name == HeaderName_from_bytes(key)
    IN  IF Ascii_is_valid_key(key) /\ name # None /\ name[1] \in DOMAIN map
        THEN Some(map[name[1]][1])
        ELSE None

\* MetadataMap::keys (lines 37-38): every header name, each once, as
\* KeyRef::Ascii or KeyRef::Binary by its suffix.
KeyRef(name) ==
    IF Ascii_is_valid_key(name) THEN [flavor |-> "Ascii", v |-> name]
    ELSE [flavor |-> "Binary", v |-> name]

MetadataMap_keys(map) == {KeyRef(k) : k \in DOMAIN map}

(***************************************************************************)
(* The adapters (lines 13-45)                                              *)
(***************************************************************************)
\* Mutant of MetadataInjector_set: the value is stored without being parsed.
MetadataInjector_set_Unparsed(map, key, value) ==
    LET k == MetadataKey_from_str(key)
    IN  IF k # None THEN MetadataMap_insert(map, k[1], value) ELSE map

\* Mutant of MetadataInjector_set: the key is parsed as a MetadataKey<Binary>.
MetadataInjector_set_Binary(map, key, value) ==
    LET k == HeaderName_from_bytes(key)
        v == MetadataValue_parse(value)
    IN  IF k # None /\ Binary_is_valid_key(k[1]) /\ v # None
        THEN MetadataMap_insert(map, k[1], v[1])
        ELSE map

\* MetadataInjector::set
MetadataInjector_set(map, key, value) ==
    LET k == MetadataKey_from_str(key)
        v == MetadataValue_parse(value)
    IN  IF k # None /\ v # None THEN MetadataMap_insert(map, k[1], v[1]) ELSE map

\* MetadataExtractor::get
MetadataExtractor_get(map, key) ==
    LET metadata_value == MetadataMap_get(map, key)
    IN  IF metadata_value = None THEN None ELSE to_str(metadata_value[1])

\* Mutant of MetadataExtractor_keys: the KeyRef::Binary names are left out.
MetadataExtractor_keys_AsciiOnly(map) ==
    {k.v : k \in {x \in MetadataMap_keys(map) : x.flavor = "Ascii"}}

\* MetadataExtractor::keys: the names as a set (the Vec's order is the map's
\* iteration order, which nothing fixes).
MetadataExtractor_keys(map) == {k.v : k \in MetadataMap_keys(map)}

(***************************************************************************)
(* CarrierSpec: the adapters used directly on one MetadataMap, as the      *)
(* tests do (lines 112-116, 125-129).                                      *)
(***************************************************************************)
K_id == <<"x","-","i","d">>
K_ID == <<"X","-","I","d">>
K_bin == <<"a","-","b","i","n">>
K_BIN == <<"A","-","B","I","N">>
K_empty == <<>>
K_space == <<"x"," ","y">>
K_nonascii == <<"k","x80">>
K_te == <<"t","e">>

V_1 == <<"v","1">>
V_2 == <<"v"," ","2">>
V_empty == <<>>
V_lf == <<"v","LF">>
V_nonascii == <<"x80","v">>
\* The stored form of a binary value: tonic keeps it base64-encoded.
V_base64 == <<"A","Q","I">>

\* The keys and values the adapters are called with.
Keys == {K_id, K_ID, K_bin, K_BIN, K_empty, K_space, K_nonascii, K_te}
Values == {V_1, V_2, V_empty, V_lf, V_nonascii, V_base64}

\* The maps the RPC layer hands over: empty, a multi-valued plain key, a
\* binary-flavored entry, a plain key holding opaque bytes.
InboundMaps ==
    { EmptyMap,
      (K_id :> <<V_1, V_2>>),
      (K_bin :> <<V_base64>>),
      (K_id :> <<V_nonascii>>) @@ (K_te :> <<V_1>>) @@ (K_bin :> <<V_base64>>) }

\* A propagator's inject is a sequence of set calls on the injector.
MaxPairs == 2
Pair(k, v) == [key |-> k, value |-> v]
InjectablePairs == {Pair(K_id, V_1), Pair(K_space, V_1), Pair(K_te, V_lf), Pair(K_te, V_2)}
PairSeqs == UNION {[1..n -> InjectablePairs] : n \in 1..MaxPairs}

RECURSIVE inject_pairs(_, _)
inject_pairs(map, pairs) ==
    IF pairs = <<>> THEN map
    ELSE inject_pairs(MetadataInjector_set(map, Head(pairs).key, Head(pairs).value),
                      Tail(pairs))

\* A call of an adapter method: its arguments, what it returned and the map it
\* was made on.
Call(op, key, value, pairs, result, before) ==
    [op |-> op, key |-> key, value |-> value, pairs |-> pairs, result |-> result,
     before |-> before]

CarrierInit ==
    /\ carrier \in InboundMaps
    /\ ret = Call("new", <<>>, <<>>, <<>>, None, EmptyMap)
    /\ metadata = <<>>
    /\ thread = <<>>
    /\ current = <<>>
    /\ guards = <<>>
    /\ span = <<>>
    /\ last = <<>>
    /\ lifo = <<>>

UnchangedProgram ==
    UNCHANGED <<metadata, thread, current, guards, span, last, lifo>>

\* injector.set(key, value): returns ().
Set(key, value) ==
    /\ carrier' = MetadataInjector_set(carrier, key, value)
    /\ ret' = Call("set", key, value, <<>>, None, carrier)
    /\ UnchangedProgram

\* propagator.inject_context(cx, &mut injector) for a propagator writing `pairs`.
Inject(pairs) ==
    /\ carrier' = inject_pairs(carrier, pairs)
    /\ ret' = Call("inject", <<>>, <<>>, pairs, None, carrier)
    /\ UnchangedProgram

\* extractor.get(key): the map is borrowed immutably.
Get(key) ==
    /\ ret' = Call("get", key, <<>>, <<>>, MetadataExtractor_get(carrier, key), carrier)
    /\ UNCHANGED carrier
    /\ UnchangedProgram

\* extractor.keys()
GetKeys ==
    /\ ret' = Call("keys", <<>>, <<>>, <<>>, MetadataExtractor_keys(carrier), carrier)
    /\ UNCHANGED carrier
    /\ UnchangedProgram

CarrierNext ==
    \/ \E key \in Keys, value \in Values : Set(key, value)
    \/ \E pairs \in PairSeqs : Inject(pairs)
    \/ \E key \in Keys : Get(key)
    \/ GetKeys

CarrierSpec == CarrierInit /\ [][CarrierNext]_vars

(***************************************************************************)
(* Claims on the adapters (CarrierSpec)                                    *)
(***************************************************************************)
\* The validation outcomes of the pair a set call is given.
KeyFails(key) == MetadataKey_from_str(key) = None
ValueFails(value) == MetadataValue_parse(value) = None
PairValid(p) == ~KeyFails(p.key) /\ ~ValueFails(p.value)

\* The keys of two maps other than k hold the same values.
SameExcept(m1, m2, k) ==
    /\ DOMAIN m1 \ {k} = DOMAIN m2 \ {k}
    /\ \A x \in DOMAIN m1 \ {k} : m1[x] = m2[x]

\* C1: a set call whose key or value fails validation returns normally and
\* leaves the map exactly as it was; and after a sequence of set calls made by
\* one injection, every valid pair that no later valid pair of the sequence
\* overwrites is in the map, whatever pairs of the sequence were discarded.
C1_InvalidPairDiscarded ==
    /\ (ret.op = "set" /\ (KeyFails(ret.key) \/ ValueFails(ret.value)))
          => (carrier = ret.before /\ ret.result = None)
    /\ ret.op = "inject" =>
          \A i \in 1..Len(ret.pairs) :
             LET p == ret.pairs[i]
                 k == MetadataKey_from_str(p.key)
             IN  (/\ PairValid(p)
                  /\ \A j \in (i+1)..Len(ret.pairs) :
                        PairValid(ret.pairs[j])
                           => MetadataKey_from_str(ret.pairs[j].key) # k)
                 => (k[1] \in DOMAIN carrier /\ carrier[k[1]] = <<p.value>>)

\* An injection on a non-empty map whose first pair was discarded and whose
\* second was written.
C1_Witness ==
    /\ ret.op = "inject"
    /\ Len(ret.pairs) = 2
    /\ ~PairValid(ret.pairs[1])
    /\ PairValid(ret.pairs[2])
    /\ ret.before # EmptyMap
    /\ carrier # ret.before

\* The base64 alphabet a binary-flavored value is written in.
Base64Chars == Upper \cup Lower \cup Digit \cup {"+", "/"}
Binary_value_valid(value) ==
    /\ Len(value) > 0
    /\ \A i \in 1..Len(value) : value[i] \in Base64Chars

\* C7 as stated: a key valid in either flavor (plain, or binary-suffixed with a
\* value valid for that flavor) is written: the map holds exactly the written
\* value under it and every other key keeps its values.
C7_AsStated ==
    (/\ ret.op = "set"
     /\ HeaderName_from_bytes(ret.key) # None
     /\ IF Binary_is_valid_key(HeaderName_from_bytes(ret.key)[1])
        THEN Binary_value_valid(ret.value)
        ELSE ~ValueFails(ret.value))
    => LET k == HeaderName_from_bytes(ret.key)[1]
       IN  /\ k \in DOMAIN carrier
           /\ carrier[k] = <<ret.value>>
           /\ SameExcept(carrier, ret.before, k)

\* C7 (amended): a set call whose key is a header name that, lower-cased, does
\* not end in "-bin", and whose value is visible ASCII, leaves exactly the
\* written value under the lower-cased key, replacing what the key held, and
\* every other key keeps its values; a binary-suffixed key is discarded.
C7_PlainKeyReplaced ==
    ret.op = "set" =>
       LET name == HeaderName_from_bytes(ret.key)
       IN  /\ (name # None /\ ~Binary_is_valid_key(name[1]) /\ ~ValueFails(ret.value))
                => /\ name[1] \in DOMAIN carrier
                   /\ carrier[name[1]] = <<ret.value>>
                   /\ SameExcept(carrier, ret.before, name[1])
           /\ (name # None /\ Binary_is_valid_key(name[1])) => carrier = ret.before

\* A valid set, spelled in upper case, on a key that held two values, beside
\* another key.
C7_Witness ==
    /\ ret.op = "set"
    /\ ret.key = K_ID
    /\ ~ValueFails(ret.value)
    /\ K_id \in DOMAIN ret.before
    /\ Len(ret.before[K_id]) = 2
    /\ K_te \in DOMAIN ret.before
    /\ carrier[K_id] = <<ret.value>>

\* C8 as stated: the lookup is case-insensitive; the stored value comes back
\* when it is plain text, and None when the key is absent or the entry is not
\* plain text (a binary-flavored entry); the map is not modified.
C8_AsStated ==
    ret.op = "get" =>
       LET name == LowerStr(ret.key)
           present == name \in DOMAIN ret.before
       IN  /\ carrier = ret.before
           /\ ret.result =
                 IF /\ present
                    /\ ~Binary_is_valid_key(name)
                    /\ to_str(ret.before[name][1]) # None
                 THEN Some(ret.before[name][1])
                 ELSE None

\* C8 (amended): get never modifies the map and never fails.  A key written
\* with a lower-case "-bin" suffix yields None.  Any other key is looked up
\* case-insensitively: the first value stored under it comes back when all its
\* bytes are visible ASCII, None when the key is absent or the value is not.
\* The suffix test is on the key as written, so a binary-flavored entry asked
\* for with an upper-case suffix yields its stored (base64) text.
C8_GetByWrittenSuffix ==
    ret.op = "get" =>
       LET name == LowerStr(ret.key)
           present == name \in DOMAIN ret.before
       IN  /\ carrier = ret.before
           /\ ends_with(ret.key, BinSuffix) => ret.result = None
           /\ ~ends_with(ret.key, BinSuffix) =>
                 /\ ret.result # None =>
                       /\ present
                       /\ ret.result = Some(ret.before[name][1])
                       /\ \A i \in 1..Len(ret.result[1]) : is_visible_ascii(ret.result[1][i])
                 /\ ret.result = None =>
                       \/ ~present
                       \/ \E i \in 1..Len(ret.before[name][1]) :
                             ~is_visible_ascii(ret.before[name][1][i])

\* A get spelled in upper case that found a multi-valued key.
C8_Witness ==
    /\ ret.op = "get"
    /\ ret.key = K_ID
    /\ ret.result = Some(V_1)
    /\ Len(ret.before[K_id]) = 2

\* C9: keys() returns exactly the names of the keys the map holds at the time of
\* the call, plain and binary-flavored alike (compared case-insensitively).
C9_KeysComplete ==
    ret.op = "keys" =>
       /\ {LowerStr(k) : k \in ret.result} = DOMAIN ret.before
       /\ carrier = ret.before

\* keys() on a map holding a binary-flavored key, a key it came with and a key
\* set through the injector.
C9_Witness ==
    /\ ret.op = "keys"
    /\ K_bin \in ret.result
    /\ K_te \in ret.result
    /\ K_id \in ret.result
    /\ carrier[K_id] = <<V_2>>

(***************************************************************************)
(* opentelemetry: Context and the TraceContextPropagator the operations    *)
(* require to be registered (lines 48-49, 104, 121).                       *)
(***************************************************************************)
\* A Context, by the SpanContext of its span.
Cx(trace_id, span_id, sampled, remote, trace_state) ==
    [trace_id |-> trace_id, span_id |-> span_id, sampled |-> sampled,
     remote |-> remote, trace_state |-> trace_state]

\* Context::new(): no span, so SpanContext::empty_context().
EmptyCx == Cx(0, 0, 0, FALSE, <<>>)

\* SpanContext::is_valid: neither id is zero.
is_valid(cx) == cx.trace_id # 0 /\ cx.span_id # 0

HexSeq == <<"0","1","2","3","4","5","6","7","8","9","a","b","c","d","e","f">>

\* format!("{:0width$x}", n): lower-case hexadecimal, zero-padded.
RECURSIVE to_hex(_, _)
to_hex(n, width) ==
    IF width = 0 /\ n = 0 THEN <<>>
    ELSE Append(to_hex(n \div 16, IF width = 0 THEN 0 ELSE width - 1),
                HexSeq[(n % 16) + 1])

\* The value of a hexadecimal digit of either case.
HexChars == {c \in Upper \cup Lower \cup Digit : ToLower(c) \in SeqRange(HexSeq)}
HexValueOf == [c \in HexChars |-> (CHOOSE i \in 1..Len(HexSeq) : HexSeq[i] = ToLower(c)) - 1]
HexValue(c) == HexValueOf[c]

\* uN::from_str_radix(s, 16): digits of either case, at least one; value[i] is
\* the number the first i digits write.
from_str_radix(s) ==
    LET value[i \in 0..Len(s)] == IF i = 0 THEN 0 ELSE value[i - 1] * 16 + HexValue(s[i])
    IN  IF Len(s) > 0 /\ \A i \in 1..Len(s) : s[i] \in HexChars
        THEN Some(value[Len(s)])
        ELSE None

\* u8::from_str_radix: as above, and the value fits a byte.
u8_from_str_radix(s) ==
    LET n == from_str_radix(s)
    IN  IF n # None /\ n[1] < 256 THEN n ELSE None

\* str::split(sep): the pieces between the separators, the n-th piece lying
\* between the (n-1)-th and the n-th separator.
split(s, sep) ==
    LET at == {i \in 1..Len(s) : s[i] = sep}
        \* the position of the n-th separator; 0 and Len(s)+1 bound the string
        pos(n) == IF n = 0 THEN 0
                  ELSE IF n > Cardinality(at) THEN Len(s) + 1
                  ELSE CHOOSE i \in at : Cardinality({j \in at : j < i}) = n - 1
    IN  [n \in 1..(Cardinality(at) + 1) |-> SubSeq(s, pos(n - 1) + 1, pos(n) - 1)]

\* str::split_terminator(sep): split, without a trailing empty piece.
split_terminator(s, sep) ==
    LET parts == split(s, sep)
    IN  IF parts[Len(parts)] = <<>> THEN SubSeq(parts, 1, Len(parts) - 1) ELSE parts

\* str::trim: without leading and trailing white space.
WhiteSpace == {" ", "TAB", "LF"}
trim(s) ==
    IF s = <<>> \/ (s[1] \notin WhiteSpace /\ s[Len(s)] \notin WhiteSpace) THEN s
    ELSE LET inked == {i \in 1..Len(s) : s[i] \notin WhiteSpace}
         IN  IF inked = {} THEN <<>>
             ELSE SubSeq(s, CHOOSE i \in inked : \A j \in inked : i <= j,
                            CHOOSE i \in inked : \A j \in inked : j <= i)

K_traceparent == <<"t","r","a","c","e","p","a","r","e","n","t">>
K_tracestate == <<"t","r","a","c","e","s","t","a","t","e">>

\* TraceState::from_str(s), failing to the default (empty) state: a list of
\* key=value members.
TraceStateKeyChars == Lower \cup Digit \cup {"_", "-", "*", "/"}
TraceState_member_valid(m) ==
    LET kv == split(m, "=")
    IN  /\ Len(kv) = 2
        /\ Len(kv[1]) > 0
        /\ Len(kv[2]) > 0
        /\ \A i \in 1..Len(kv[1]) : kv[1][i] \in TraceStateKeyChars
        /\ \A i \in 1..Len(kv[2]) : is_visible_ascii(kv[2][i]) /\ kv[2][i] \notin {"TAB", ","}

TraceState_from_str(s) ==
    LET members == split(s, ",")
    IN  IF \A i \in 1..Len(members) : TraceState_member_valid(members[i]) THEN s ELSE <<>>

\* TraceContextPropagator's traceparent value:
\* format!("{:02x}-{:032x}-{:016x}-{:02x}", 0, trace_id, span_id, flags & SAMPLED).
traceparent_of(cx) ==
    to_hex(0, 2) \o <<"-">> \o to_hex(cx.trace_id, 32) \o <<"-">>
       \o to_hex(cx.span_id, 16) \o <<"-">> \o to_hex(cx.sampled, 2)

\* TraceContextPropagator::inject_context(cx, injector) (lines 63, 84): a
\* context without a valid span context writes nothing.
inject_context(cx, map) ==
    IF is_valid(cx)
    THEN MetadataInjector_set(
             MetadataInjector_set(map, K_traceparent, traceparent_of(cx)),
             K_tracestate, cx.trace_state)
    ELSE map

\* Option::unwrap_or on what the extractor's get returned.
unwrap_or(opt, default) == IF opt = None THEN default ELSE opt[1]

\* The span context the parsed fields of a traceparent value make.
span_context_of(nparts, version, trace_id, span_id, opts, upper, state) ==
    IF \/ version = None
       \/ version[1] > 254
       \/ (version[1] = 0 /\ nparts # 4)
       \/ upper
       \/ trace_id = None
       \/ span_id = None
       \/ opts = None
       \/ (version[1] = 0 /\ opts[1] > 2)
    THEN None
    ELSE LET sc == Cx(trace_id[1], span_id[1], opts[1] % 2, TRUE, state)
         IN  IF is_valid(sc) THEN Some(sc) ELSE None

\* (Each field is bound as a value so that it is parsed once.)
parse_traceparent(parts, tracestate) ==
    IF Len(parts) < 4 THEN None
    ELSE CHOOSE sc \in
            { span_context_of(
                  Len(parts), version, trace_id, span_id, opts,
                  \E p \in 2..3 : \E i \in 1..Len(parts[p]) : is_ascii_uppercase(parts[p][i]),
                  TraceState_from_str(tracestate)) :
                version \in {u8_from_str_radix(parts[1])},
                trace_id \in {from_str_radix(parts[2])},
                span_id \in {from_str_radix(parts[3])},
                opts \in {u8_from_str_radix(parts[4])} } : TRUE

\* TraceContextPropagator::extract_span_context(extractor): Some(span context), or
\* None where the library returns Err(()): fewer than four "-"-separated
\* parts, a version that is no byte or is 0xff, a version 0 with more than
\* four parts, an id with an upper-case digit or a character that is no digit,
\* flags that are no byte or, for version 0, above 2, an all-zero id.
\* (The parts are bound as values so that the split is computed once.)
extract_span_context(map) ==
    CHOOSE sc \in
        { parse_traceparent(parts, unwrap_or(MetadataExtractor_get(map, K_tracestate), <<>>)) :
            parts \in {split_terminator(
                          trim(unwrap_or(MetadataExtractor_get(map, K_traceparent), <<>>)),
                          "-")} } : TRUE

\* Mutant of extract_with_context: Context::default() when nothing is extracted.
extract_with_context_Default(cx, sc) == IF sc = None THEN EmptyCx ELSE sc[1]

\* TraceContextPropagator::extract_with_context(cx, extractor), given what
\* extract_span_context returned: cx with the remote span context put in it,
\* or, when none is extracted, a clone of cx.
extract_with_context(cx, sc) == IF sc = None THEN cx ELSE sc[1]

\* propagator.extract(&MetadataExtractor(..)) (lines 52, 74): extract_with_context
\* on Context::current().
extract(map, current_cx) == extract_with_context(current_cx, extract_span_context(map))

(***************************************************************************)
(* tracing / tracing-opentelemetry: the span that is current in a unit     *)
(***************************************************************************)
\* No span is entered, or no OpenTelemetry layer records it.
NoSpan == [enabled |-> FALSE, trace_id |-> 0, span_id |-> 0, parent |-> EmptyCx]

\* A recorded span with its own ids and no parent yet.
NewSpan(trace_id, span_id) ==
    [enabled |-> TRUE, trace_id |-> trace_id, span_id |-> span_id, parent |-> EmptyCx]

\* Span::current().set_parent(cx) (line 55): the parent context of the span's
\* builder; nothing for a span that is not recorded.
set_parent(sp, cx) == IF sp.enabled THEN [sp EXCEPT !.parent = cx] ELSE sp

\* Span::current().context() (line 61): the span's own span context, in the
\* trace of its parent when the parent is valid; Context::default() for a span
\* that is not recorded.
context(sp) ==
    IF ~sp.enabled THEN EmptyCx
    ELSE IF is_valid(sp.parent)
         THEN Cx(sp.parent.trace_id, sp.span_id, sp.parent.sampled, FALSE,
                 sp.parent.trace_state)
         ELSE Cx(sp.trace_id, sp.span_id, 1, FALSE, <<>>)

(***************************************************************************)
(* The program: execution units (threads, or cooperative tasks sharing a   *)
(* thread), each receiving requests and about to send one.                 *)
(***************************************************************************)
Units == {"u1", "u2"}
Threads == {"t1", "t2"}

\* The most guards live on one thread at a time.
MaxGuards == 2

\* Mutant of CurrentSlot: one process-wide slot instead of a thread-local.
CurrentSlot_Global(u) == "t1"

\* thread_local! CURRENT_CONTEXT, as Context::current() (line 82) and
\* Context::attach (line 76) reach it: the slot of the calling unit's thread.
CurrentSlot(u) == thread[u]

\* CURRENT_CONTEXT's initial value on every thread: Context::default().
BaseCx == EmptyCx

\* The context of the remote caller of unit u.
CallerOf == [u \in Units |-> IF u = "u1" THEN 1 ELSE 2]
RemoteCx(u) == Cx(16 + CallerOf[u], 32 + CallerOf[u], 1, TRUE, <<"a","=","1">>)

\* The requests a unit may receive (&Request), by name: "empty" has no
\* metadata, "other" no trace key; "short" (too few parts), "zero" (an all-zero
\* trace id), "upper" (upper-case digits), "version" (version ff) and "opaque"
\* (bytes that are no text) have a traceparent nothing can be extracted from;
\* "remote" has the headers the unit's remote caller injected.
MalformedTraceparent ==
    [ short   |-> <<"0","0","-","a","b">>,
      zero    |-> to_hex(0, 2) \o <<"-">> \o to_hex(0, 32) \o <<"-">> \o to_hex(7, 16)
                     \o <<"-","0","1">>,
      upper   |-> to_hex(0, 2) \o <<"-">> \o to_hex(0, 31) \o <<"A","-">> \o to_hex(7, 16)
                     \o <<"-","0","1">>,
      version |-> <<"f","f","-","1","-","1","-","0","1">>,
      opaque  |-> <<"x80","0","-","1","-","1","-","0","1">> ]

UntracedNames == {"empty", "other"} \cup DOMAIN MalformedTraceparent
InboundNames == UntracedNames \cup {"remote"}

InboundMetadata(u, r) ==
    CASE r = "empty" -> EmptyMap
      [] r = "other" -> (K_id :> <<V_1>>) @@ (K_bin :> <<V_base64>>)
      [] r = "remote" -> inject_context(RemoteCx(u), EmptyMap)
      [] OTHER -> (K_traceparent :> <<MalformedTraceparent[r]>>)

\* The request a unit is about to send (&mut Request) is named "out"; its
\* metadata is fresh, or carries two stale traceparent values.
StaleMap == (K_traceparent :> << <<"s","t","a","l","e">>, <<"0","0","-","1">> >>)
OutboundMaps == {EmptyMap, StaleMap}

RequestsOf(u) == InboundNames \cup {"out"}

\* What the propagator extracts from each inbound request (these never
\* change, so they are tabulated once).
InboundSpanContext ==
    [u \in Units |-> [r \in InboundNames |-> extract_span_context(InboundMetadata(u, r))]]

\* The propagator's extract on request r of unit u, with current_cx current.
extract_from(u, r, current_cx) ==
    IF r = "out" THEN extract(metadata[u], current_cx)
    ELSE extract_with_context(current_cx, InboundSpanContext[u][r])

InjectOps == {"tracing_current_span_to_req", "otel_thread_cx_to_req"}

\* How a request is recorded: the one being sent, or what a received one carries.
RequestClass(r) ==
    IF r \in {"out", "none"} THEN r ELSE IF r = "remote" THEN "traced" ELSE "untraced"

\* The record of an operation: the unit, the request, and whether an inject
\* repeats the call made just before it.  A specification that starts with
\* last = NotRecorded keeps no record.
NotRecorded == [op |-> "off", unit |-> "none", req |-> "none", repeat |-> FALSE]
NoOp == [op |-> "none", unit |-> "none", req |-> "none", repeat |-> FALSE]

Op(op, u, r) ==
    IF last = NotRecorded THEN NotRecorded
    ELSE [op |-> op, unit |-> u, req |-> RequestClass(r),
          repeat |-> op \in InjectOps /\ last.op = op /\ last.unit = u]

UnchangedCarrier == UNCHANGED <<carrier, ret>>

\* The state common to every program specification.
InitProgram ==
    /\ carrier = EmptyMap
    /\ ret = Call("new", <<>>, <<>>, <<>>, None, EmptyMap)
    /\ current = [t \in Threads |-> BaseCx]
    /\ guards = [t \in Threads |-> <<>>]
    /\ lifo = [t \in Threads |-> TRUE]

\* One unit.
Init ==
    /\ thread = [u \in {"u1"} |-> "t1"]
    /\ metadata \in [{"u1"} -> OutboundMaps]
    /\ span \in [{"u1"} -> {NoSpan, NewSpan(3, 4)}]
    /\ last = NoOp
    /\ InitProgram

\* tracing_parent_span_from_req(request) (lines 50-56)
tracing_parent_span_from_req(u, r) ==
    LET cx == extract_from(u, r, current[CurrentSlot(u)])
    IN  /\ span' = [span EXCEPT ![u] = set_parent(span[u], cx)]
        /\ last' = Op("tracing_parent_span_from_req", u, r)
        /\ UNCHANGED <<metadata, thread, current, guards, lifo>>
        /\ UnchangedCarrier

\* tracing_current_span_to_req(request) (lines 60-65)
tracing_current_span_to_req(u) ==
    LET cx == context(span[u])
    IN  /\ metadata' = [metadata EXCEPT ![u] = inject_context(cx, metadata[u])]
        /\ last' = Op("tracing_current_span_to_req", u, "out")
        /\ UNCHANGED <<thread, current, guards, span, lifo>>
        /\ UnchangedCarrier

\* Context::attach (line 76): the slot takes cx, and the guard keeps what the
\* slot held.  (owner and cx are history: who holds the guard, what it attached.)
attach(t, u, cx) ==
    /\ current' = [current EXCEPT ![t] = cx]
    /\ guards' = [guards EXCEPT ![t] =
                     Append(@, [owner |-> u, previous_cx |-> current[t], cx |-> cx])]

\* otel_thread_cx_from_req(request) -> ContextGuard (lines 72-77)
otel_thread_cx_from_req(u, r) ==
    LET t == CurrentSlot(u)
        cx == extract_from(u, r, current[t])
    IN  /\ Len(guards[t]) < MaxGuards
        /\ attach(t, u, cx)
        /\ last' = Op("otel_thread_cx_from_req", u, r)
        /\ UNCHANGED <<metadata, thread, span, lifo>>
        /\ UnchangedCarrier

\* Mutant of otel_thread_cx_to_req: injects the current span's context.
otel_thread_cx_to_req_Span(u) ==
    LET cx == context(span[u])
    IN  /\ metadata' = [metadata EXCEPT ![u] = inject_context(cx, metadata[u])]
        /\ last' = Op("otel_thread_cx_to_req", u, "out")
        /\ UNCHANGED <<thread, current, guards, span, lifo>>
        /\ UnchangedCarrier

\* otel_thread_cx_to_req(request) (lines 81-86)
otel_thread_cx_to_req(u) ==
    LET cx == current[CurrentSlot(u)]
    IN  /\ metadata' = [metadata EXCEPT ![u] = inject_context(cx, metadata[u])]
        /\ last' = Op("otel_thread_cx_to_req", u, "out")
        /\ UNCHANGED <<thread, current, guards, span, lifo>>
        /\ UnchangedCarrier

\* Mutant of restored: the context the thread started with.
restored_Original(g) == BaseCx

\* What dropping guard g puts back into the slot: its previous_cx.
restored(g) == g.previous_cx

RemoveAt(s, i) == SubSeq(s, 1, i - 1) \o SubSeq(s, i + 1, Len(s))

\* The guards unit u holds, by position in its thread's list.
GuardsOf(u) == {i \in 1..Len(guards[CurrentSlot(u)]) : guards[CurrentSlot(u)][i].owner = u}

Newest(S) == CHOOSE i \in S : \A j \in S : j <= i

\* The ContextGuard returned at line 76 is dropped ("context will restore when
\* guard dropped", line 71).  A unit holds its guards in nested scopes, so it
\* drops the newest guard it holds; that need not be its thread's newest.
drop_guard(u) ==
    LET t == CurrentSlot(u)
    IN  /\ GuardsOf(u) # {}
        /\ current' = [current EXCEPT ![t] = restored(guards[t][Newest(GuardsOf(u))])]
        /\ guards' = [guards EXCEPT ![t] = RemoveAt(@, Newest(GuardsOf(u)))]
        /\ lifo' = [lifo EXCEPT ![t] = @ /\ Newest(GuardsOf(u)) = Len(guards[t])]
        /\ last' = Op("drop", u, "none")
        /\ UNCHANGED <<metadata, thread, span>>
        /\ UnchangedCarrier

Next ==
    \E u \in DOMAIN metadata :
       \/ \E r \in RequestsOf(u) : tracing_parent_span_from_req(u, r)
       \/ tracing_current_span_to_req(u)
       \/ \E r \in RequestsOf(u) : otel_thread_cx_from_req(u, r)
       \/ otel_thread_cx_to_req(u)
       \/ drop_guard(u)

Spec == Init /\ [][Next]_vars

\* Two units, on one thread or on two, each about to send a fresh request.
ConcInit ==
    /\ thread \in {[u \in Units |-> "t1"], [u \in Units |-> IF u = "u1" THEN "t1" ELSE "t2"]}
    /\ metadata = [u \in Units |-> EmptyMap]
    /\ span = [u \in Units |-> NoSpan]
    /\ last = NotRecorded
    /\ InitProgram

ConcSpec == ConcInit /\ [][Next]_vars

(***************************************************************************)
(* Claims about the four operations                                        *)
(***************************************************************************)
\* The span context a receiver would extract from what unit u is about to send.
Injected(u) == extract_span_context(metadata[u])

SameIdentity(a, b) == a.trace_id = b.trace_id /\ a.span_id = b.span_id

Top(t) == guards[t][Len(guards[t])]

\* C2: on a thread whose guards were released newest first, the ambient
\* context is always the one the newest live guard attached, and the thread's
\* initial context when no guard is live: releasing B makes A current again,
\* releasing A makes current what was current before A (not the original
\* context at every release).
C2_GuardRestoresPrevious ==
    \A t \in Threads :
        lifo[t] =>
            /\ current[t] = IF guards[t] = <<>> THEN BaseCx ELSE Top(t).cx
            /\ \A i \in 1..Len(guards[t]) :
                  guards[t][i].previous_cx = IF i = 1 THEN BaseCx ELSE guards[t][i - 1].cx

\* A nested guard was just released and the outer guard's context, which is
\* not the unit's original context, is current again.
C2_Witness ==
    /\ last.op = "drop"
    /\ lifo["t1"]
    /\ Len(guards["t1"]) = 1
    /\ is_valid(guards["t1"][1].cx)
    /\ current["t1"] = guards["t1"][1].cx
    /\ current["t1"] # BaseCx

\* The trace that belongs to unit u's own request.
OwnTrace(u) == RemoteCx(u).trace_id

\* The contexts unit u can observe: the ambient one, and the one in the
\* request it is about to send.
Observed(u) ==
    {current[CurrentSlot(u)]} \cup (IF Injected(u) = None THEN {} ELSE {Injected(u)[1]})

\* C3 as stated: no unit ever observes, or injects, a context of another
\* unit's trace, whether the units are threads or tasks of one thread.
C3_AsStated ==
    \A u \in DOMAIN metadata :
        \A cx \in Observed(u) : is_valid(cx) => cx.trace_id = OwnTrace(u)

OwnedCount(g, u) ==
    Cardinality({i \in 1..Len(g["t1"]) : g["t1"][i].owner = u})
       + Cardinality({i \in 1..Len(g["t2"]) : g["t2"][i].owner = u})

C3_ObservesOwnThread ==
    \A u \in DOMAIN metadata :
        \A cx \in Observed(u) :
            is_valid(cx) =>
                \E v \in DOMAIN metadata : thread[v] = thread[u] /\ cx.trace_id = OwnTrace(v)

C3_ReleaseStaysOnThread ==
    \A u, v \in DOMAIN metadata :
        (thread[u] # thread[v] /\ OwnedCount(guards', u) < OwnedCount(guards, u))
            => current'[thread[v]] = current[thread[v]]

\* C3 (amended): a unit observes and injects only contexts of the traces of
\* the units of its own thread, and a guard release never changes the ambient
\* context of a unit on another thread.
C3_ThreadIsolation == [](C3_ObservesOwnThread) /\ [][C3_ReleaseStaysOnThread]_vars

\* Two units on two threads, each holding a guard, each with its own caller's
\* context current and injected into the request it sends.
C3_Witness ==
    /\ thread["u1"] # thread["u2"]
    /\ \A u \in Units :
          /\ GuardsOf(u) # {}
          /\ current[thread[u]] = RemoteCx(u)
          /\ Injected(u) = Some(RemoteCx(u))

\* C4: after an inject operation with a context of valid trace identity, the
\* request's metadata yields a span context of the same trace id and span id;
\* and extracting from that request, by either extract operation, makes
\* exactly that context the span's parent, or the ambient context.
C4_RoundTrip ==
    \A u \in DOMAIN metadata :
        /\ (last.op = "tracing_current_span_to_req" /\ is_valid(context(span[u])))
              => (Injected(u) # None /\ SameIdentity(Injected(u)[1], context(span[u])))
        /\ (last.op = "otel_thread_cx_to_req" /\ is_valid(current[CurrentSlot(u)]))
              => (Injected(u) # None /\ SameIdentity(Injected(u)[1], current[CurrentSlot(u)]))
        /\ (last.op = "otel_thread_cx_from_req" /\ last.req = "out" /\ Injected(u) # None)
              => current[CurrentSlot(u)] = Injected(u)[1]
        /\ (last.op = "tracing_parent_span_from_req" /\ last.req = "out"
               /\ Injected(u) # None /\ span[u].enabled)
              => span[u].parent = Injected(u)[1]

\* The span's context went into the request and came back out of it as the
\* ambient context: the span's own ids, now remote.
C4_Witness ==
    /\ last.op = "otel_thread_cx_from_req"
    /\ last.req = "out"
    /\ span["u1"].enabled
    /\ current["t1"].remote
    /\ SameIdentity(current["t1"], context(span["u1"]))
    /\ current["t1"].span_id = span["u1"].span_id

\* C5: an inject operation that repeats the one just made, on the same request
\* with the same context, leaves the request's metadata as the first left it.
C5_IdempotentInjection ==
    [][(last'.op \in InjectOps /\ last'.repeat) => metadata' = metadata]_vars

\* The span's context was injected twice in a row and the request holds one
\* traceparent value, the span's.
C5_Witness ==
    /\ last.op = "tracing_current_span_to_req"
    /\ last.repeat
    /\ is_valid(context(span["u1"]))
    /\ metadata["u1"][K_traceparent] = <<traceparent_of(context(span["u1"]))>>

\* C6 as stated: what is extracted from a request without usable trace
\* headers is the empty context.
C6_AsStated ==
    \A u \in DOMAIN metadata :
        /\ (last.op = "otel_thread_cx_from_req" /\ last.req = "untraced")
              => current[CurrentSlot(u)] = EmptyCx
        /\ (last.op = "tracing_parent_span_from_req" /\ last.req = "untraced"
               /\ span[u].enabled)
              => span[u].parent = EmptyCx

\* C6 (amended): what is extracted from a request without usable trace headers
\* is the caller's current ambient context (the empty context only while
\* nothing is attached): attaching it leaves the ambient context as it was, and
\* the span's parent becomes the ambient context.
C6_UntracedExtractsCurrent ==
    \A u \in DOMAIN metadata :
        /\ (last.op = "otel_thread_cx_from_req" /\ last.req = "untraced")
              => /\ guards[CurrentSlot(u)] # <<>>
                 /\ Top(CurrentSlot(u)).cx = Top(CurrentSlot(u)).previous_cx
                 /\ current[CurrentSlot(u)] = Top(CurrentSlot(u)).previous_cx
        /\ (last.op = "tracing_parent_span_from_req" /\ last.req = "untraced"
               /\ span[u].enabled)
              => span[u].parent = current[CurrentSlot(u)]

\* A request without usable trace headers was extracted from while a remote
\* context was attached, and that context is still current.
C6_Witness ==
    /\ last.op = "otel_thread_cx_from_req"
    /\ last.req = "untraced"
    /\ Len(guards["t1"]) = 2
    /\ is_valid(current["t1"])
    /\ Top("t1").previous_cx = current["t1"]

C10_Frame(u) ==
    /\ last'.op = "tracing_parent_span_from_req"
          => /\ metadata' = metadata
             /\ current' = current
             /\ guards' = guards
             /\ [span'[u] EXCEPT !.parent = span[u].parent] = span[u]
    /\ last'.op = "otel_thread_cx_from_req"
          => /\ metadata' = metadata
             /\ span' = span
    /\ last'.op = "otel_thread_cx_to_req"
          => /\ current' = current /\ guards' = guards /\ span' = span
             /\ IF is_valid(current[CurrentSlot(u)])
                THEN MetadataExtractor_get(metadata'[u], K_traceparent)
                        = Some(traceparent_of(current[CurrentSlot(u)]))
                ELSE metadata' = metadata
    /\ last'.op = "tracing_current_span_to_req"
          => /\ current' = current /\ guards' = guards /\ span' = span
             /\ IF is_valid(context(span[u]))
                THEN MetadataExtractor_get(metadata'[u], K_traceparent)
                        = Some(traceparent_of(context(span[u])))
                ELSE metadata' = metadata

\* C10: tracing_parent_span_from_req changes the span's parent only;
\* otel_thread_cx_from_req leaves the metadata and the span alone; each inject
\* operation leaves the ambient context and the span alone and writes the
\* context of its own model (the ambient one, the span's one) whatever the
\* other is.
C10_ModelsSeparate ==
    [][\A u \in DOMAIN metadata : last'.unit = u => C10_Frame(u)]_vars

\* The ambient context was injected while the span's context was another one.
C10_Witness ==
    /\ last.op = "otel_thread_cx_to_req"
    /\ is_valid(current["t1"])
    /\ is_valid(context(span["u1"]))
    /\ context(span["u1"]).trace_id # current["t1"].trace_id
    /\ MetadataExtractor_get(metadata["u1"], K_traceparent)
          = Some(traceparent_of(current["t1"]))

====
